---------------------------- MODULE Spec2Model ----------------------------
(***************************************************************************)
(* Model of the weather acquisition core of meteo-qt                       *)
(* (src/meteo_qt/meteo_qt.py): the Download worker thread (Download.run,   *)
(* Download.html404) and the part of SystemTrayIcon that starts it and     *)
(* consumes its signals (refresh, update, done, try_again, error, ...).    *)
(*                                                                         *)
(* A response body is abstracted to the pair (encoding, kind); the kind is *)
(* the class of the body with respect to the parsing code that reads it.   *)
(* An exception is abstracted to the name of its Python class.             *)
(*                                                                         *)
(* sys.excepthook is replaced (meteo_qt.py:2801), so an exception that     *)
(* leaves Download.run is logged and the thread ends; the application      *)
(* keeps running.  The city is taken to be configured (self.id_ # '').     *)
(*                                                                         *)
(* The specifications share the variables:                                 *)
(*   Spec          Download.run step by step, with refresh / update /      *)
(*                 done / try_again / error; the slots that only store     *)
(*                 display data keep no state there                        *)
(*   SnapshotSpec  weatherdata() and notifier(): the stored snapshot and   *)
(*                 the trends, with the Download reduced to its city       *)
(*   TrendSpec     the trends over complete snapshots of the city shown    *)
(*   IconSpec      overviewcity() -> iconfetch / dayiconfetch and          *)
(*                 IconDownload.run                                        *)
(*   EnrichSpec    uv_fetch / ozone_fetch, Uv.run, Ozone.run and slots     *)
(*   OpenerSpec    the proxy set-up of run() and the opener of the process *)
(*   CompassSpec, BeaufortSpec, DayForecastSpec                            *)
(*                 one call of winddir_json_code, convertToBeaufort,       *)
(*                 dayforecastdata                                         *)
(*   IconOrderSpec one IconDownload with its icon list and its layout      *)
(*   CycleSpec     whole cycles from the construction of SystemTrayIcon    *)
(*                 on: what a run() emits, the event queue, the slots and  *)
(*                 overviewcity(); CycleLiveSpec adds the fairness of the  *)
(*                 single-shot timers                                      *)
(* Each one keeps the variables of the other parts at their initial value. *)
(***************************************************************************)
EXTENDS Integers, Sequences, FiniteSets, TLC

\* ---------------------------------------------------------------- bounds
\* Number of Download objects the consumer may create in one behaviour.
MaxThreads == 2
\* Number of emitted signals that may wait for the GUI event loop.
MaxQueue == 1

\* Number of cities in the city list of the settings.
MaxCities == 2
\* Pressure and temperature values a response can carry: 1..MaxValue.
MaxValue == 2
\* Number of current-weather responses the consumer is handed in one behaviour.
MaxSnapshots == 3
\* Number of IconDownload objects per icon channel in one behaviour.
MaxIconThreads == 2
\* Number of icons in an icon list.
MaxIcons == 1
\* Largest bearing given to the compass mapping, in tenths of a degree.
MaxBearing == 3599
\* Largest wind speed given to the Beaufort conversion, in tenths of a unit.
MaxSpeed == 830
\* Largest number of periods in a day-forecast response.
MaxPeriods == 7
\* Number of Uv objects, and of Ozone objects, in one behaviour.
MaxEnrichThreads == 2
\* Number of proxy configurations the settings can hold, one at a time.
MaxConfigs == 2

\* Queued emissions the event loop of the consumer holds (whole cycles).
MaxPending == 3

\* ------------------------------------------------------- program constants
\* Retry bound of Download.run (self.tentatives >= 10).
MaxTentatives == 10

\* Retry bound of IconDownload.run (self.tentatives >= 10).
MaxIconTentatives == 10

\* dayforecastdata(): periods = 7 for the XML response, 6 for the JSON one.
XmlPeriods == 7
JsonPeriods == 6

Threads == 1..MaxThreads
Cities == 1..MaxCities
Values == 1..MaxValue

VARIABLES
    threads,          \* Download objects: thread index -> state of its run()
    downloadThread,   \* self.downloadThread: index of the last Download, 0 = no attribute
    signals,          \* queued signal emissions, in emission order (Qt queued connections)
    inerror,          \* self.inerror
    timerActive,      \* self.timer is running (periodic refresh timer)
    shots,            \* pending QTimer.singleShot callbacks, as counts per callback
    tentatives,       \* self.tentatives of SystemTrayIcon
    forcast6daysBool, \* self.forcast6daysBool
    gui,              \* self.dayforecast_data ("none" = no attribute) and self.json_data_bool
    lastUpdate,       \* what the last call of update() logged: "Update..." or "remaining thread..."
    \* -- the stored snapshot and the trends (weatherdata, notifier)
    id_,              \* self.id_: the city displayed
    trendCities_dic,  \* self.trendCities_dic: city -> 5-tuple (indices 0..4 of the source are 1..5)
    hPaTrend,         \* self.hPaTrend
    temp_trend,       \* self.temp_trend: "", "up" (rising arrow) or "down" (falling arrow)
    weatherDataDico,  \* self.weatherDataDico: per key, the response its value was taken from
    fetching,         \* city the running Download was created for, 0 = none running
    doneQueued,       \* a done(1) emission waits for the event loop
    responses,        \* current-weather responses handed to weatherdata() so far
    hist,             \* per city, the last two snapshots weatherdata() completed (observation)
    lastloc,          \* city of the last snapshot weatherdata() completed, 0 = none (observation)
    \* -- the icon workers (iconfetch, dayiconfetch, IconDownload)
    iconThreads,      \* IconDownload objects: channel -> index -> state of its run()
    iconThread,       \* self.download_thread / self.day_download_thread: index, 0 = no attribute
    delivered,        \* per channel, the workers whose icons were added to the layout since it was cleared
    aborted,          \* the process was aborted by Qt
    \* -- one call of a conversion or display function
    args,             \* the function called and what it is called with
    ret,              \* what the call returned or raised; fn = "" before the call
    \* -- the UV and ozone workers (uv_fetch, ozone_fetch, Uv, Ozone)
    enrichThreads,    \* Uv / Ozone objects: kind -> index -> state of its run()
    enrichThread,     \* self.uv_thread / self.ozone_thread: index, 0 = no attribute
    enrichSignals,    \* queued uv_signal / o3_signal emissions, in emission order
    labels,           \* what uv_value_label / ozone_value_label show: "", "value" or "-"
    \* -- the proxy configuration of the workers
    proxySettings,    \* the Proxy* values stored in QSettings
    opener,           \* urllib.request._opener, the opener of the process: its configuration, 0 = none installed
    netWorkers,       \* per worker class, a run(): the configuration it read and those its calls went through
    \* -- the data of the cycles as the consumer holds it
    stored,           \* per attribute set by a data slot, the cycle (Download) its value came from, 0 = not set
    overview          \* what the last overviewcity() that reached line 586 displayed and started (observation)

downloadVars == <<threads, downloadThread, signals, timerActive, shots,
                  tentatives, forcast6daysBool, gui, lastUpdate>>
snapVars == <<id_, trendCities_dic, hPaTrend, temp_trend, weatherDataDico,
              fetching, doneQueued, responses, hist, lastloc>>
iconVars == <<iconThreads, iconThread, delivered, aborted>>

callVars == <<args, ret>>
\* the variables of the parts outside the Download cycle and its consumer
enrichVars == <<enrichThreads, enrichThread, enrichSignals, labels>>
openerVars == <<proxySettings, opener, netWorkers>>
cycleVars == <<stored, overview>>
otherVars == <<callVars, enrichVars, openerVars, cycleVars>>

vars == <<downloadVars, inerror, snapVars, iconVars, otherVars>>

\* ------------------------------------------------------------ environment
\* Exceptions a network call (urlopen / read) can raise.
OpenErrors == {"timeout", "HTTPError", "URLError", "ConnectionResetError"}
ReadErrors == {"timeout", "ConnectionResetError"}
\* urlopen(url) of the icon is called without timeout=.
IconErrors == {"HTTPError", "URLError", "ConnectionResetError"}

\* Classes of bodies the server can return.
\*   valid        parses and holds every node the code reads
\*   envelope     a {"cod": ..., "message": ...} object
\*   syntaxerror  not parsable in the format requested
\*   noattr       XML that parses, but lat, lon or icon attribute is absent
\*   nonode       XML that parses, but tree[0][0] or tree[9] does not exist
\*   nokeys       JSON that parses, but "coord" or "weather" is absent
\*   validquote   valid JSON whose text contains an apostrophe
WeatherXmlKinds == {"valid", "envelope", "syntaxerror", "noattr", "nonode"}
WeatherJsonKinds == {"valid", "validquote", "envelope", "nokeys", "syntaxerror"}
DayForecastXmlKinds == {"valid", "envelope", "syntaxerror"}
DayForecastJsonKinds == {"valid", "envelope", "syntaxerror"}
IconKinds == {"png", "envelope"}
\* Outcomes of the 6-day-forecast call: a tree, or one of the failures.
Forecast6Failures == {"timeout", "HTTPError", "URLError", "ConnectionResetError",
                      "ClientError", "syntaxerror"}

NoPage == [enc |-> "none", kind |-> "none"]
Bytes(k) == [enc |-> "bytes", kind |-> k]
\* bytes.decode('utf-8') of a body
Decode(p) == [enc |-> "str", kind |-> p.kind]
\* str.replace("'", '"') of a JSON text: an apostrophe inside a string
\* value becomes a closing quote, the text no longer parses
ReplaceQuote(p) == IF p.kind = "validquote" THEN [p EXCEPT !.kind = "syntaxerror"] ELSE p

\* ---------------------------------------------------------- Download thread
NewDownload ==
    [pc |-> "new", tentatives |-> 0, depth |-> 0,
     forcast6days |-> FALSE, use_json_day_forecast |-> FALSE,
     page |-> NoPage, pagedayforecast |-> NoPage, tree |-> "unbound",
     raised |-> "none",
     emit |-> <<>>,       \* signals the straight-line code at pc has still to emit
     \* observations of the run
     out |-> <<>>,        \* error / done emissions of this thread, in order
     runs |-> 0,          \* invocations of run()
     transient |-> 0,     \* invocations ended in one of the two retry handlers
     dfxml |-> "none",    \* kind of the primary-format day-forecast body of this invocation
     altdf |-> 0,         \* alternate day-forecast requests of this invocation
     altdfcycle |-> 0]    \* ... of the whole thread, counted up to 2

Sig(t, s, a) == [sig |-> s, from |-> t, arg |-> a]
Res(w, sigs) == [w |-> w, sigs |-> sigs]

\* (variant: no envelope is ever recognised)
Html404Mut(page) == FALSE

\* Download.html404: eval(page.decode('utf-8')) inside a bare except.
\* Only a bytes object has decode(); a str raises AttributeError, which
\* the bare except turns into False, as does anything that is no envelope.
Html404(page) == page.enc = "bytes" /\ page.kind = "envelope"

\* `raise urllib.error.HTTPError`: the class is instantiated without
\* arguments, HTTPError.__init__ requires five, so a TypeError is raised.
RaiseHTTPErrorClass == "TypeError"

\* (variant: the bound compared with > instead of >=)
ExhaustedMut(n) == n > MaxTentatives

\* self.tentatives >= 10
Exhausted(n) == n >= MaxTentatives

\* A new invocation of run(): fresh locals, one more frame.
Invoke(w) ==
    [w EXCEPT !.pc = "forecast6", !.depth = @ + 1, !.runs = @ + 1,
              !.forcast6days = FALSE, !.use_json_day_forecast = FALSE,
              !.page = NoPage, !.pagedayforecast = NoPage, !.tree = "unbound",
              !.raised = "none", !.dfxml = "none", !.altdf = 0]

\* An exception that leaves run(): the frames are unwound, nothing is emitted.
Uncaught(w, e) == [w EXCEPT !.pc = "return", !.raised = e]

\* (variant: the error signal is not emitted before done)
ExceptHTTPMut(t, w, e) ==
    IF Exhausted(w.tentatives)
    THEN Res([w EXCEPT !.pc = "return", !.raised = e, !.transient = @ + 1],
             <<Sig(t, "done", "1")>>)
    ELSE Res(Invoke([w EXCEPT !.tentatives = @ + 1, !.transient = @ + 1]), <<>>)

\* except (ConnectionResetError, HTTPError, URLError) as error
ExceptHTTP(t, w, e) ==
    IF Exhausted(w.tentatives)
    THEN Res([w EXCEPT !.pc = "return", !.raised = e, !.transient = @ + 1],
             <<Sig(t, "error", e), Sig(t, "done", "1")>>)
    ELSE Res(Invoke([w EXCEPT !.tentatives = @ + 1, !.transient = @ + 1]), <<>>)

\* (variant: done(1) is emitted on every timeout, also before a retry)
ExceptTimeoutMut(t, w, e) ==
    IF Exhausted(w.tentatives)
    THEN Res([w EXCEPT !.pc = "return", !.raised = e, !.transient = @ + 1],
             <<Sig(t, "done", "1")>>)
    ELSE Res(Invoke([w EXCEPT !.tentatives = @ + 1, !.transient = @ + 1]),
             <<Sig(t, "done", "1")>>)

\* (variant: after a timeout the call that failed is repeated in place)
ExceptTimeoutSameCall(t, w, e) ==
    IF Exhausted(w.tentatives)
    THEN Res([w EXCEPT !.pc = "return", !.raised = e, !.transient = @ + 1],
             <<Sig(t, "done", "1")>>)
    ELSE Res([w EXCEPT !.tentatives = @ + 1, !.transient = @ + 1], <<>>)

\* except timeout
ExceptTimeout(t, w, e) ==
    IF Exhausted(w.tentatives)
    THEN Res([w EXCEPT !.pc = "return", !.raised = e, !.transient = @ + 1],
             <<Sig(t, "done", "1")>>)
    ELSE Res(Invoke([w EXCEPT !.tentatives = @ + 1, !.transient = @ + 1]), <<>>)

\* except (etree.XMLSyntaxError) as error
ExceptXMLSyntax(t, w, e) ==
    Res([w EXCEPT !.pc = "return", !.raised = e], <<Sig(t, "done", "1")>>)

\* The except clauses of the outer try of run(), in order.
OuterExcept(t, w, e) ==
    IF e \in {"ConnectionResetError", "HTTPError", "URLError"} THEN ExceptHTTP(t, w, e)
    ELSE IF e = "timeout" THEN ExceptTimeout(t, w, e)
    ELSE IF e = "XMLSyntaxError" THEN ExceptXMLSyntax(t, w, e)
    ELSE Res(Uncaught(w, e), <<>>)

\* the signals sigs, then the result r
Then(sigs, r) == Res(r.w, sigs \o r.sigs)

\* etree.fromstring(page) returns a tree: the body is XML
XmlParses(page) == page.kind \notin {"syntaxerror", "envelope"}

\* uv_ind = (lat, lon) ... treedayforecast = etree.fromstring(pagedayforecast)
AfterCoords(t, w) ==
    LET emitted == <<Sig(t, "weather_icon_signal", "icon"), Sig(t, "uv_signal", "coord")>>
    IN  IF ~w.use_json_day_forecast /\ ~XmlParses(w.pagedayforecast)
        THEN Then(emitted, OuterExcept(t, w, "XMLSyntaxError"))
        ELSE Res([w EXCEPT !.pc = "icon"], emitted)

\* the inner try: tree = etree.fromstring(page), lat, lon, weather_icon
ParseWeather(t, w) ==
    CASE ~XmlParses(w.page) -> OuterExcept(t, w, "XMLSyntaxError")
      [] w.page.kind = "valid" -> AfterCoords(t, [w EXCEPT !.tree = "complete"])
      [] w.page.kind = "noattr" -> Res([w EXCEPT !.tree = "incomplete", !.pc = "json_weather"], <<>>)
      [] OTHER -> OuterExcept(t, [w EXCEPT !.tree = "incomplete"], "IndexError")

\* (variant: a day-forecast body that cannot be parsed is treated like an
\* envelope, the alternate format is requested)
CheckPagesMut(t, w) ==
    IF Html404(w.page) THEN OuterExcept(t, w, RaiseHTTPErrorClass)
    ELSE IF Html404(w.pagedayforecast) \/ ~XmlParses(w.pagedayforecast)
         THEN Res([w EXCEPT !.pc = "json_dayforecast"], <<>>)
    ELSE ParseWeather(t, w)

\* if self.html404(page, 'city') ... elif self.html404(pagedayforecast, ...)
CheckPages(t, w) ==
    IF Html404(w.page) THEN OuterExcept(t, w, RaiseHTTPErrorClass)
    ELSE IF Html404(w.pagedayforecast) THEN Res([w EXCEPT !.pc = "json_dayforecast"], <<>>)
    ELSE ParseWeather(t, w)

\* the body of the alternate day-forecast request
LoadJsonDayForecast(t, w) ==
    IF Html404(w.pagedayforecast) THEN OuterExcept(t, w, RaiseHTTPErrorClass)
    ELSE IF w.pagedayforecast.kind = "syntaxerror" THEN OuterExcept(t, w, "JSONDecodeError")
    ELSE ParseWeather(t, [w EXCEPT !.use_json_day_forecast = TRUE])

\* the body of the alternate current-weather request
LoadJsonWeather(t, w) ==
    CASE w.page.kind = "syntaxerror" -> OuterExcept(t, w, "JSONDecodeError")
      [] w.page.kind \in {"envelope", "nokeys"} -> OuterExcept(t, w, "KeyError")
      [] OTHER -> AfterCoords(t, w)

\* self.xmlpage.emit(tree) ... self.done.emit(int(done))
EmitAll(t, w) ==
    Res([w EXCEPT !.pc = "return"],
        <<Sig(t, "xmlpage", w.tree), Sig(t, "wimage", "png")>>
        \o (IF w.forcast6days THEN <<Sig(t, "forecast6_rawpage", "tree")>> ELSE <<>>)
        \o <<Sig(t, "day_forecast_rawpage",
                 IF w.use_json_day_forecast THEN "dict" ELSE "tree"),
             Sig(t, "done", "0")>>)

\* One step of thread t with result r: the code runs up to its next
\* network call; the signals on the way are emitted one by one by Emit.
Commit(t, r) ==
    /\ threads[t].emit = <<>>
    /\ threads' = [threads EXCEPT ![t] = [r.w EXCEPT !.emit = r.sigs]]
    /\ UNCHANGED signals

\* What an emission adds to the thread's record of error / done emissions.
Observed(s) ==
    IF s.sig = "error" THEN <<"error">>
    ELSE IF s.sig = "done" THEN <<"done" \o s.arg>>
    ELSE <<>>

GuiUnchanged == UNCHANGED <<downloadThread, inerror, timerActive, shots,
                            tentatives, forcast6daysBool, gui, lastUpdate,
                            snapVars, iconVars, otherVars>>

Forecast6(t) ==
    /\ threads[t].pc = "forecast6"
    /\ \E o \in {"ok"} \cup Forecast6Failures :
         LET w == threads[t] IN
         Commit(t, IF o = "ok" THEN Res([w EXCEPT !.forcast6days = TRUE, !.pc = "open_weather"], <<>>)
                   ELSE IF o = "ConnectionResetError" THEN Res(Uncaught(w, o), <<>>)
                   ELSE Res([w EXCEPT !.forcast6days = FALSE, !.pc = "open_weather"], <<>>))
    /\ GuiUnchanged

OpenWeather(t) ==
    /\ threads[t].pc = "open_weather"
    /\ \E o \in {"ok"} \cup OpenErrors :
         LET w == threads[t] IN
         Commit(t, IF o = "ok" THEN Res([w EXCEPT !.pc = "open_dayforecast"], <<>>)
                   ELSE OuterExcept(t, w, o))
    /\ GuiUnchanged

OpenDayForecast(t) ==
    /\ threads[t].pc = "open_dayforecast"
    /\ \E o \in {"ok"} \cup OpenErrors :
         LET w == threads[t] IN
         Commit(t, IF o = "ok" THEN Res([w EXCEPT !.pc = "read_weather"], <<>>)
                   ELSE OuterExcept(t, w, o))
    /\ GuiUnchanged

ReadWeather(t) ==
    /\ threads[t].pc = "read_weather"
    /\ \E o \in WeatherXmlKinds \cup ReadErrors :
         LET w == threads[t] IN
         Commit(t, IF o \in ReadErrors THEN OuterExcept(t, w, o)
                   ELSE Res([w EXCEPT !.page = Bytes(o), !.pc = "read_dayforecast"], <<>>))
    /\ GuiUnchanged

ReadDayForecast(t) ==
    /\ threads[t].pc = "read_dayforecast"
    /\ \E o \in DayForecastXmlKinds \cup ReadErrors :
         LET w == threads[t] IN
         Commit(t, IF o \in ReadErrors THEN OuterExcept(t, w, o)
                   ELSE CheckPages(t, [w EXCEPT !.pagedayforecast = Bytes(o), !.dfxml = o]))
    /\ GuiUnchanged

JsonDayForecast(t) ==
    /\ threads[t].pc = "json_dayforecast"
    /\ \E o \in DayForecastJsonKinds \cup OpenErrors :
         LET w == [threads[t] EXCEPT !.altdf = @ + 1,
                                     !.altdfcycle = IF @ < 2 THEN @ + 1 ELSE @] IN
         Commit(t, IF o \in OpenErrors THEN OuterExcept(t, w, o)
                   ELSE LoadJsonDayForecast(t, [w EXCEPT !.pagedayforecast = Decode(Bytes(o))]))
    /\ GuiUnchanged

JsonWeather(t) ==
    /\ threads[t].pc = "json_weather"
    /\ \E o \in WeatherJsonKinds \cup OpenErrors :
         LET w == threads[t] IN
         Commit(t, IF o \in OpenErrors THEN OuterExcept(t, w, o)
                   ELSE LoadJsonWeather(t, [w EXCEPT !.page = ReplaceQuote(Decode(Bytes(o)))]))
    /\ GuiUnchanged

Icon(t) ==
    /\ threads[t].pc = "icon"
    /\ \E o \in IconKinds \cup IconErrors :
         LET w == threads[t] IN
         Commit(t, IF o \in IconErrors THEN OuterExcept(t, w, o)
                   ELSE IF Html404(Bytes(o)) THEN OuterExcept(t, w, RaiseHTTPErrorClass)
                   ELSE EmitAll(t, w))
    /\ GuiUnchanged

\* signal.emit(...): the emission is queued for the GUI thread.
Emit(t) ==
    /\ threads[t].emit # <<>>
    /\ Len(signals) < MaxQueue
    /\ signals' = Append(signals, Head(threads[t].emit))
    /\ threads' = [threads EXCEPT ![t].emit = Tail(@),
                                  ![t].out = @ \o Observed(Head(threads[t].emit))]
    /\ GuiUnchanged

\* A frame of run() returns (or is left by the exception): after
\* self.run() only logging.debug('Download thread done') is executed.
\* The locals of the frame are gone; with the last frame the thread
\* finishes and nothing reads the Download object any more.
Return(t) ==
    /\ threads[t].pc = "return"
    /\ threads[t].emit = <<>>
    /\ threads' = [threads EXCEPT ![t] =
                     IF @.depth > 1
                     THEN [@ EXCEPT !.depth = @ - 1,
                                    !.forcast6days = FALSE, !.use_json_day_forecast = FALSE,
                                    !.page = NoPage, !.pagedayforecast = NoPage,
                                    !.tree = "unbound", !.raised = "none",
                                    !.runs = 0, !.transient = 0, !.dfxml = "none",
                                    !.altdf = 0, !.altdfcycle = 0]
                     ELSE [NewDownload EXCEPT !.pc = "finished"]]
    /\ UNCHANGED signals
    /\ GuiUnchanged

\* ------------------------------------------------------------ SystemTrayIcon
\* QThread.isRunning()
IsRunning(t) == threads[t].pc \notin {"new", "finished"}

NoGui == [dayforecast_data |-> "none", json_data_bool |-> FALSE]

\* '' in a slot of trendCities_dic that later holds a number
Empty == <<>>
\* [''] * 5
NoEntry == <<Empty, "", Empty, "", "">>
\* a key of weatherDataDico that was never set
NoTag == [serial |-> 0, loc |-> 0]
\* self.weatherDataDico = {}
NoWeatherData ==
    [Sunrise |-> NoTag, Pressure |-> [from |-> NoTag, value |-> 0],
     Id |-> 0, Temp |-> NoTag, Wind |-> NoTag]

\* __init__: hPaTrend, trendCities_dic, temp_trend, weatherDataDico; the
\* city is the first one of the list
SnapshotInit ==
    /\ id_ = 1
    /\ trendCities_dic = <<>>
    /\ hPaTrend = 0
    /\ temp_trend = ""
    /\ weatherDataDico = NoWeatherData
    /\ fetching = 0
    /\ doneQueued = FALSE
    /\ responses = 0
    /\ hist = [c \in Cities |-> <<>>]
    /\ lastloc = 0

Channels == {"forecast", "day"}
IconThreads == 1..MaxIconThreads
NewIconDownload == [pc |-> "new", i |-> 0, tentatives |-> 0]

\* QThread.isRunning() of an IconDownload
IconIsRunning(ch, k) == iconThreads[ch][k].pc \in {"run", "return"}

\* no IconDownload has been created: the attributes download_thread and
\* day_download_thread do not exist
IconInit ==
    /\ iconThreads = [ch \in Channels |-> [k \in IconThreads |-> NewIconDownload]]
    /\ iconThread = [ch \in Channels |-> 0]
    /\ delivered = [ch \in Channels |-> {}]
    /\ aborted = FALSE

\* no call has been made
NoCall == [fn |-> ""]
CallInit == args = NoCall /\ ret = NoCall
\* the two kinds of enrichment worker
EnrichKinds == {"uv", "ozone"}
EnrichThreads == 1..MaxEnrichThreads
NewEnrich == [pc |-> "new", emitted |-> <<>>]
EnrichInit ==
    /\ enrichThreads = [kd \in EnrichKinds |-> [k \in EnrichThreads |-> NewEnrich]]
    /\ enrichThread = [kd \in EnrichKinds |-> 0]
    /\ enrichSignals = <<>>
    /\ labels = [kd \in EnrichKinds |-> ""]
\* the worker classes; each run() begins with the same proxy set-up
WorkerClasses == {"Download", "IconDownload", "Uv", "Ozone"}
Configs == 1..MaxConfigs
OpenerInit ==
    /\ proxySettings = 1
    /\ opener = 0
    /\ netWorkers = [w \in WorkerClasses |-> [pc |-> "new", conf |-> 0, calls |-> {}]]
\* no data slot has run, overviewcity() was never called
NoStored == [weather_icon_name |-> 0, uv_coord |-> 0, wIcon |-> 0,
             forecast6_data |-> 0, dayforecast_data |-> 0]
NoOverview == [cycle |-> 0, Temp |-> 0, Wind |-> 0, mode |-> "", forecast6_data |-> 0,
               uv_started |-> FALSE, uv_coord |-> 0]
CycleInit == stored = NoStored /\ overview = NoOverview
OtherInit == CallInit /\ EnrichInit /\ OpenerInit /\ CycleInit

Init ==
    /\ threads = [t \in Threads |-> IF t = 1 THEN Invoke(NewDownload) ELSE NewDownload]
    /\ downloadThread = 1
    /\ signals = <<>>
    /\ inerror = FALSE
    /\ timerActive = TRUE
    /\ shots = [try_again |-> 0, refresh |-> 0]
    /\ tentatives = 0
    /\ forcast6daysBool = FALSE
    /\ gui = NoGui
    /\ lastUpdate = "Update..."
    /\ SnapshotInit
    /\ IconInit
    /\ OtherInit

\* (variant: the is-running guard is missing)
RemainingMut == FALSE

\* update(): `if hasattr(self, 'downloadThread'): if isRunning(): return`
Remaining == downloadThread # 0 /\ IsRunning(downloadThread)

\* update()
Update ==
    IF Remaining
    THEN /\ lastUpdate' = "remaining thread..."
         /\ UNCHANGED <<threads, downloadThread, forcast6daysBool, gui>>
    ELSE /\ downloadThread < MaxThreads
         /\ lastUpdate' = "Update..."
         /\ gui' = gui
         /\ downloadThread' = downloadThread + 1
         /\ forcast6daysBool' = FALSE
         /\ threads' = [threads EXCEPT ![downloadThread + 1] = Invoke(NewDownload)]

\* (variant: refresh() does not start the periodic timer)
RefreshNoTimer ==
    /\ inerror' = FALSE
    /\ UNCHANGED timerActive
    /\ Update
    /\ UNCHANGED <<signals, snapVars, iconVars, otherVars>>

\* refresh(), for a configured city (self.id_ # '')
Refresh ==
    /\ inerror' = FALSE
    /\ timerActive' = TRUE
    /\ Update
    /\ UNCHANGED <<signals, snapVars, iconVars, otherVars>>

\* self.timer.timeout.connect(self.refresh)
TimerTimeout ==
    /\ timerActive
    /\ Refresh
    /\ UNCHANGED <<shots, tentatives>>

\* manual_refresh()
ManualRefresh ==
    /\ tentatives' = 0
    /\ Refresh
    /\ UNCHANGED shots

\* self.timer.singleShot(5000, self.refresh) fires
ShotRefresh ==
    /\ shots.refresh > 0
    /\ shots' = [shots EXCEPT !.refresh = @ - 1]
    /\ Refresh
    /\ UNCHANGED tentatives

\* (variant: the counter of try_again() stops the retries after the first)
ShotTryAgainBounded ==
    /\ shots.try_again > 0
    /\ shots' = IF tentatives < 1
                THEN [shots EXCEPT !.try_again = @ - 1, !.refresh = @ + 1]
                ELSE [shots EXCEPT !.try_again = @ - 1]
    /\ tentatives' = tentatives + 1
    /\ UNCHANGED <<threads, downloadThread, signals, inerror, timerActive,
                   forcast6daysBool, gui, lastUpdate, snapVars, iconVars, otherVars>>

\* self.timer.singleShot(10000, self.try_again) fires: try_again()
ShotTryAgain ==
    /\ shots.try_again > 0
    /\ shots' = [shots EXCEPT !.try_again = @ - 1, !.refresh = @ + 1]
    /\ tentatives' = tentatives + 1
    /\ UNCHANGED <<threads, downloadThread, signals, inerror, timerActive,
                   forcast6daysBool, gui, lastUpdate, snapVars, iconVars, otherVars>>

\* done(done)
Done(s) ==
    IF s.arg = "1"
    THEN /\ inerror' = TRUE
         /\ shots' = [shots EXCEPT !.try_again = @ + 1]
         /\ UNCHANGED tentatives
    ELSE /\ inerror' = FALSE
         /\ IF gui.dayforecast_data # "none"
            THEN UNCHANGED <<shots, tentatives>>          \* overviewcity()
            ELSE /\ shots' = [shots EXCEPT !.refresh = @ + 1]   \* try_again()
                 /\ tentatives' = tentatives + 1

\* The event loop delivers the oldest queued signal to its slot.
Deliver ==
    /\ signals # <<>>
    /\ signals' = Tail(signals)
    /\ LET s == Head(signals) IN
       CASE s.sig = "done" ->
              /\ Done(s)
              /\ UNCHANGED <<timerActive, forcast6daysBool, gui>>
         [] s.sig = "error" ->                         \* error(error)
              /\ timerActive' = TRUE
              /\ inerror' = TRUE
              /\ UNCHANGED <<shots, tentatives, forcast6daysBool, gui>>
         [] s.sig = "forecast6_rawpage" ->             \* forecast6
              /\ forcast6daysBool' = TRUE
              /\ UNCHANGED <<inerror, timerActive, shots, tentatives, gui>>
         [] s.sig = "day_forecast_rawpage" ->          \* dayforecast
              /\ gui' = [dayforecast_data |-> s.arg, json_data_bool |-> (s.arg = "dict")]
              /\ UNCHANGED <<inerror, timerActive, shots, tentatives, forcast6daysBool>>
         \* weather_icon_name_set, uv, weatherdata, makeicon: they store the
         \* payload in attributes (weather_icon_name, uv_coord, weatherDataDico,
         \* wIcon) that are display data, not part of the state modelled here
         [] OTHER ->
              UNCHANGED <<inerror, timerActive, shots, tentatives, forcast6daysBool, gui>>
    /\ UNCHANGED <<threads, downloadThread, lastUpdate, snapVars, iconVars, otherVars>>

ThreadStep(t) ==
    \/ Forecast6(t)
    \/ OpenWeather(t)
    \/ OpenDayForecast(t)
    \/ ReadWeather(t)
    \/ ReadDayForecast(t)
    \/ JsonDayForecast(t)
    \/ JsonWeather(t)
    \/ Icon(t)
    \/ Emit(t)
    \/ Return(t)

\* ------------------------------------------- weatherdata() and the trends
\* Classes of current-weather trees with respect to weatherdata():
\*   complete   every element the handler reads is there
\*   nospeed    no <speed> element: wind_value is unbound at line 1963
WeatherTreeKinds == {"complete", "nospeed"}

\* The numbers are the values float() returns for the attribute strings.
Response(k, c, n, p, t) ==
    [kind |-> k, loc |-> c, serial |-> n, pressure |-> p, temperature |-> t]

\* (variant: the first pressure of a city is compared with 0)
HPaTrendMut(pressure, entry) ==
    pressure - (IF entry[1] # Empty THEN entry[1][1] ELSE 0)

\* weatherdata(): the new self.hPaTrend
HPaTrend(pressure, entry) ==
    IF entry[1] # Empty THEN pressure - entry[1][1] ELSE 0

\* overviewcity(): the arrow shown next to the pressure
HPaArrow(h) == IF h = 0 THEN "flat" ELSE IF h < 0 THEN "down" ELSE "up"

\* notifier(): the new self.temp_trend; without a stored temperature the
\* attribute is not assigned
TempTrend(temp, entry, trend) ==
    IF entry[3] # Empty
    THEN IF temp > entry[3][1] THEN "up"
         ELSE IF temp < entry[3][1] THEN "down"
         ELSE entry[4]
    ELSE trend

\* (variant: only a rise counts as a change)
TempChangedMut(temp, old) == IF temp > old THEN "True" ELSE "False"

\* notifier(): trendCities_dic[id_][4]
TempChanged(temp, old) == IF temp = old THEN "False" ELSE "True"

\* notifier(): the new entry of the city
Notifier(temp, entry) ==
    IF entry[3] # Empty
    THEN [entry EXCEPT ![3] = <<temp>>,
                       ![4] = IF temp > entry[3][1] THEN "up"
                              ELSE IF temp < entry[3][1] THEN "down"
                              ELSE @,
                       ![5] = TempChanged(temp, entry[3][1])]
    ELSE [entry EXCEPT ![3] = <<temp>>]

\* the last two elements of h \o <<x>>
Window(h, x) == IF h = <<>> THEN <<x>> ELSE <<h[Len(h)], x>>

\* weatherdata(tree)
Weatherdata(r) ==
    IF inerror
    THEN UNCHANGED <<weatherDataDico, trendCities_dic, hPaTrend, temp_trend, hist, lastloc>>
    ELSE
      LET tag == [serial |-> r.serial, loc |-> r.loc]
          \* for element in tree.iter(): Sunrise, Pressure, ...
          loop == [weatherDataDico EXCEPT !.Sunrise = tag,
                                          !.Pressure = [from |-> tag, value |-> r.pressure]]
          \* weatherDataDico['Id'] = self.id_ ... ['Meteo'] = self.meteo
          head == [loop EXCEPT !.Id = id_, !.Temp = tag]
      IN  IF r.kind = "nospeed"
          THEN \* UnboundLocalError: the slot is left
               /\ weatherDataDico' = head
               /\ UNCHANGED <<trendCities_dic, hPaTrend, temp_trend, hist, lastloc>>
          ELSE
            LET entry == IF id_ \in DOMAIN trendCities_dic
                         THEN trendCities_dic[id_] ELSE NoEntry
                pressure == head.Pressure.value
                hpa == HPaTrend(pressure, entry)
                entry1 == [entry EXCEPT ![1] = <<pressure>>]
                trend == TempTrend(r.temperature, entry1, temp_trend)
            IN  /\ weatherDataDico' = [head EXCEPT !.Wind = tag]
                /\ hPaTrend' = hpa
                /\ temp_trend' = trend
                /\ trendCities_dic' =
                       (id_ :> Notifier(r.temperature, entry1)) @@ trendCities_dic
                /\ hist' = [hist EXCEPT ![id_] =
                              Window(@, [p |-> pressure, t |-> r.temperature,
                                         trend |-> trend, hpa |-> HPaArrow(hpa)])]
                /\ lastloc' = id_

\* refresh() -> update(): a Download for the displayed city is started
\* unless one is running
SnapRefresh ==
    /\ inerror' = FALSE
    /\ fetching' = IF fetching = 0 /\ responses < MaxSnapshots THEN id_ ELSE fetching
    /\ UNCHANGED <<id_, trendCities_dic, hPaTrend, temp_trend, weatherDataDico,
                   doneQueued, responses, hist, lastloc>>
    /\ UNCHANGED <<otherVars, downloadVars, iconVars>>

\* wheelEvent(): no icon worker is running; the next or previous city of
\* the list becomes the displayed city at once, refresh() follows later
WheelEvent(c) ==
    /\ ~aborted
    /\ c # id_
    /\ \A ch \in Channels :
          iconThread[ch] # 0 => ~IconIsRunning(ch, iconThread[ch])
    /\ id_' = c
    /\ UNCHANGED <<trendCities_dic, hPaTrend, temp_trend, weatherDataDico,
                   fetching, doneQueued, responses, hist, lastloc>>
    /\ UNCHANGED <<otherVars, downloadVars, inerror, iconVars>>

\* The running Download ends with xmlpage ... done(0); the event loop
\* hands the tree to weatherdata().
FetchDone(k, p, t) ==
    /\ fetching # 0
    /\ fetching' = 0
    /\ responses' = responses + 1
    /\ Weatherdata(Response(k, fetching, responses + 1, p, t))
    /\ UNCHANGED <<id_, doneQueued, inerror>>
    /\ UNCHANGED <<otherVars, downloadVars, iconVars>>

\* The running Download ends with done(1).
FetchFails ==
    /\ fetching # 0
    /\ ~doneQueued
    /\ fetching' = 0
    /\ doneQueued' = TRUE
    /\ UNCHANGED <<id_, trendCities_dic, hPaTrend, temp_trend, weatherDataDico,
                   responses, hist, lastloc>>
    /\ UNCHANGED <<otherVars, downloadVars, inerror, iconVars>>

\* done(1): self.inerror = True
DeliverDone1 ==
    /\ doneQueued
    /\ doneQueued' = FALSE
    /\ inerror' = TRUE
    /\ UNCHANGED <<id_, trendCities_dic, hPaTrend, temp_trend, weatherDataDico,
                   fetching, responses, hist, lastloc>>
    /\ UNCHANGED <<otherVars, downloadVars, iconVars>>

\* no Download object of the detailed model exists
DownloadIdle ==
    /\ threads = [t \in Threads |-> NewDownload]
    /\ downloadThread = 0
    /\ signals = <<>>
    /\ inerror = FALSE
    /\ timerActive = TRUE
    /\ shots = [try_again |-> 0, refresh |-> 0]
    /\ tentatives = 0
    /\ forcast6daysBool = FALSE
    /\ gui = NoGui
    /\ lastUpdate = "Update..."

SnapshotStart == DownloadIdle /\ SnapshotInit /\ IconInit /\ OtherInit

SnapshotNext ==
    \/ SnapRefresh
    \/ \E c \in Cities : WheelEvent(c)
    \/ \E k \in WeatherTreeKinds, p, t \in Values : FetchDone(k, p, t)
    \/ FetchFails
    \/ DeliverDone1

\* The consumer side of the current-weather event: the stored snapshot
\* and the trends, with the Download reduced to the city it fetches.
SnapshotSpec == SnapshotStart /\ [][SnapshotNext]_vars

\* ------------------------------------------------------- the icon workers
\* Outcomes of urllib.request.urlopen(url, timeout=5).read() of an icon.
IconOutcomes == {"png", "envelope", "HTTPError", "URLError", "timeout",
                 "ConnectionResetError"}

\* self.periods: 6, or the length of the icon list when it is shorter
Periods == IF MaxIcons < 6 THEN MaxIcons ELSE 6

\* done(0) -> overviewcity(): iconfetch() and dayiconfetch() clear their
\* layout, create an IconDownload, bind it to the attribute and start it
Overviewcity ==
    /\ ~aborted
    /\ \A ch \in Channels : iconThread[ch] < MaxIconThreads
    /\ delivered' = [ch \in Channels |-> {}]
    /\ iconThread' = [ch \in Channels |-> iconThread[ch] + 1]
    /\ iconThreads' = [ch \in Channels |->
                         [iconThreads[ch] EXCEPT ![iconThread[ch] + 1] =
                             [NewIconDownload EXCEPT !.pc = "run"]]]
    /\ UNCHANGED aborted
    /\ UNCHANGED <<otherVars, downloadVars, inerror, snapVars>>

\* IconDownload.run: one pass of `for i in range(self.periods)`; wimage is
\* connected to iconwidget / dayiconwidget, which adds the icon to the layout
IconRun(ch, k) ==
    /\ ~aborted
    /\ iconThreads[ch][k].pc = "run"
    /\ \E o \in IconOutcomes :
         LET w == iconThreads[ch][k]
             over == [NewIconDownload EXCEPT !.pc = "return"]
         IN  /\ iconThreads' = [iconThreads EXCEPT ![ch][k] =
                   CASE o = "png" ->
                          IF w.i + 1 = Periods THEN over ELSE [w EXCEPT !.i = @ + 1]
                     [] o = "timeout" ->
                          IF w.tentatives >= MaxIconTentatives THEN over
                          ELSE [w EXCEPT !.tentatives = @ + 1, !.i = 0]   \* self.run()
                     [] OTHER -> over]
             /\ delivered' = IF o = "png"
                             THEN [delivered EXCEPT ![ch] = @ \cup {k}]
                             ELSE delivered
    /\ UNCHANGED <<iconThread, aborted>>
    /\ UNCHANGED <<otherVars, downloadVars, inerror, snapVars>>

\* run() returns, the thread finishes
IconReturn(ch, k) ==
    /\ ~aborted
    /\ iconThreads[ch][k].pc = "return"
    /\ iconThreads' = [iconThreads EXCEPT ![ch][k].pc = "finished"]
    /\ UNCHANGED <<iconThread, delivered, aborted>>
    /\ UNCHANGED <<otherVars, downloadVars, inerror, snapVars>>

\* An IconDownload that is running when its attribute is rebound has no
\* reference left but the frame of run(): the QThread may be destroyed
\* while the thread is still running, and Qt then aborts the process.
DestroyedWhileRunning(ch, k) ==
    /\ ~aborted
    /\ k # iconThread[ch]
    /\ IconIsRunning(ch, k)
    /\ aborted' = TRUE
    /\ UNCHANGED <<iconThreads, iconThread, delivered>>
    /\ UNCHANGED <<otherVars, downloadVars, inerror, snapVars>>

IconNext ==
    \/ Overviewcity
    \/ \E ch \in Channels, k \in IconThreads : IconRun(ch, k)
    \/ \E ch \in Channels, k \in IconThreads : IconReturn(ch, k)
    \/ \E ch \in Channels, k \in IconThreads : DestroyedWhileRunning(ch, k)
    \/ \E c \in Cities : WheelEvent(c)

\* The icon workers of the overview, with the primary cycle reduced to
\* its done(0).
IconSpec == SnapshotStart /\ [][IconNext]_vars

\* refresh() ... weatherdata(tree): a cycle for the displayed city that
\* is started and ends with done(0) before anything else happens
Snapshot(p, t) ==
    /\ fetching = 0
    /\ responses < MaxSnapshots
    /\ responses' = responses + 1
    /\ Weatherdata(Response("complete", id_, responses + 1, p, t))
    /\ UNCHANGED <<id_, fetching, doneQueued, inerror>>
    /\ UNCHANGED <<otherVars, downloadVars, iconVars>>

TrendNext ==
    \/ \E c \in Cities : WheelEvent(c)
    \/ \E p, t \in Values : Snapshot(p, t)

\* The trends over sequences of complete snapshots, each fetched for the
\* city displayed, with changes of the displayed city in between.
TrendSpec == SnapshotStart /\ [][TrendNext]_vars

\* --------------------------------------------------- conversion functions
\* Bearings and speeds are numbers with one decimal; they are kept as
\* integers in tenths, and so are the thresholds of the source
\* (22.5 -> 225, 36.9 -> 369, 82 -> 820).
Bearings == 0..MaxBearing
Speeds == 0..MaxSpeed
\* self.unit_system.strip() after overviewcity() set it
UnitSystems == {"m/s", "mph"}
\* the value None
None == <<>>

winddir_json_code(deg) ==
    IF deg < 225 \/ deg > 3375 THEN "N"
    ELSE IF deg < 450 THEN "NNE"
    ELSE IF deg < 675 THEN "NE"
    ELSE IF deg < 900 THEN "ENE"
    ELSE IF deg < 1125 THEN "E"
    ELSE IF deg < 1350 THEN "ESE"
    ELSE IF deg < 1575 THEN "SE"
    ELSE IF deg < 1800 THEN "SSE"
    ELSE IF deg < 2025 THEN "S"
    ELSE IF deg < 2250 THEN "SSW"
    ELSE IF deg < 2475 THEN "SW"
    ELSE IF deg < 2700 THEN "WSW"
    ELSE IF deg < 2925 THEN "W"
    ELSE IF deg < 3150 THEN "WNW"
    ELSE "NNW"               \* deg <= 337.5 holds here

\* (variant: the m/s table compares with < where the source has <=)
convertToBeaufortStrict(speed, unit_system) ==
    IF unit_system = "m/s" THEN
        IF speed < 2 THEN <<0>>
        ELSE IF speed < 15 THEN <<1>>
        ELSE IF speed < 33 THEN <<2>>
        ELSE IF speed < 54 THEN <<3>>
        ELSE IF speed < 79 THEN <<4>>
        ELSE IF speed < 107 THEN <<5>>
        ELSE IF speed < 138 THEN <<6>>
        ELSE IF speed < 171 THEN <<7>>
        ELSE IF speed < 207 THEN <<8>>
        ELSE IF speed < 244 THEN <<9>>
        ELSE IF speed < 284 THEN <<10>>
        ELSE IF speed < 324 THEN <<11>>
        ELSE IF speed < 369 THEN <<12>>
        ELSE None
    ELSE None

\* An integer n is returned as <<n>>; where no branch returns, the
\* function ends and the call yields None.
convertToBeaufort(speed, unit_system) ==
    IF unit_system = "m/s" THEN
        IF speed <= 2 THEN <<0>>
        ELSE IF speed <= 15 THEN <<1>>
        ELSE IF speed <= 33 THEN <<2>>
        ELSE IF speed <= 54 THEN <<3>>
        ELSE IF speed <= 79 THEN <<4>>
        ELSE IF speed <= 107 THEN <<5>>
        ELSE IF speed <= 138 THEN <<6>>
        ELSE IF speed <= 171 THEN <<7>>
        ELSE IF speed <= 207 THEN <<8>>
        ELSE IF speed <= 244 THEN <<9>>
        ELSE IF speed <= 284 THEN <<10>>
        ELSE IF speed <= 324 THEN <<11>>
        ELSE IF speed <= 369 THEN <<12>>
        ELSE None
    ELSE IF unit_system = "mph" THEN
        IF speed < 10 THEN <<0>>
        ELSE IF speed < 40 THEN <<1>>
        ELSE IF speed < 80 THEN <<2>>
        ELSE IF speed < 130 THEN <<3>>
        ELSE IF speed < 180 THEN <<4>>
        ELSE IF speed < 250 THEN <<5>>
        ELSE IF speed < 320 THEN <<6>>
        ELSE IF speed < 390 THEN <<7>>
        ELSE IF speed < 470 THEN <<8>>
        ELSE IF speed < 550 THEN <<9>>
        ELSE IF speed < 640 THEN <<10>>
        ELSE IF speed < 730 THEN <<11>>
        ELSE IF speed <= 820 THEN <<12>>
        ELSE None
    ELSE None

\* the other parts stay as they are at start
CallStart == DownloadIdle /\ SnapshotInit /\ IconInit /\ EnrichInit /\ OpenerInit /\ CycleInit

\* self.winddir_json_code(deg) is called with a bearing
CompassStart ==
    /\ CallStart
    /\ \E d \in Bearings : args = [fn |-> "winddir_json_code", deg |-> d]
    /\ ret = NoCall

CallCompass ==
    /\ args.fn = "winddir_json_code"
    /\ ret = NoCall
    /\ ret' = [fn |-> args.fn, value |-> winddir_json_code(args.deg)]
    /\ UNCHANGED <<args, enrichVars, openerVars, cycleVars, downloadVars, inerror, snapVars, iconVars>>

CompassSpec == CompassStart /\ [][CallCompass]_vars

\* self.convertToBeaufort(wind_speed) is called by overviewcity()
BeaufortStart ==
    /\ CallStart
    /\ \E v \in Speeds, u \in UnitSystems :
          args = [fn |-> "convertToBeaufort", speed |-> v, unit_system |-> u]
    /\ ret = NoCall

CallBeaufort ==
    /\ args.fn = "convertToBeaufort"
    /\ ret = NoCall
    /\ ret' = [fn |-> args.fn,
               value |-> convertToBeaufort(args.speed, args.unit_system)]
    /\ UNCHANGED <<args, enrichVars, openerVars, cycleVars, downloadVars, inerror, snapVars, iconVars>>

BeaufortSpec == BeaufortStart /\ [][CallBeaufort]_vars

\* ------------------------------------------------------- dayforecastdata()
\* What a period of the response says about precipitation: XML, the
\* attributes of <precipitation> (absent: str(None) = 'None'); JSON, the
\* key "rain" or "snow" of the entry, or neither.
PrecipKinds == {"rain", "snow", "none"}
\* The local variables of dayforecastdata() that make the tooltip of a period.
Fields == {"weather_cond", "temperature_at_hour", "feels_like_value",
           "precipitation", "precipitation_type", "windspeed", "winddircode",
           "pressure", "humidity", "clouds", "cloudspercent"}
\* A local is unbound, or holds a value of a Python type taken from the
\* period with index `from` of the response.
Unbound == [type |-> "unbound", from |-> -1]
Str(d) == [type |-> "str", from |-> d]
Float(d) == [type |-> "float", from |-> d]
NoLocals == [f \in Fields |-> Unbound]

\* the assignments of one pass of the loop, `if not self.json_data_bool`
\* branch and else branch
Normalize(json, d, kind, l) ==
    IF ~json
    THEN [f \in Fields |->
             IF f = "temperature_at_hour" THEN Float(d) ELSE Str(d)]
    ELSE [l EXCEPT
             !.weather_cond = Str(d),
             !.temperature_at_hour = Float(d),
             !.precipitation = IF kind = "rain" THEN Float(d)    \* precipitation_rain['3h']
                               ELSE IF kind = "snow" THEN @      \* precipitation_snow['3h'] is not assigned
                               ELSE Str(d),                      \* 'None'
             !.precipitation_type = IF kind = "none" THEN @ ELSE Str(d),
             !.windspeed = Float(d),
             !.winddircode = Str(d),
             !.clouds = Str(d),
             !.cloudspercent = Float(0)]                         \* ['list'][0]['clouds']['all']

\* the statements after the branch that read the locals, in order; the
\* exception the first failing one raises
Tooltip(l) ==
    IF l.precipitation.type = "unbound" THEN "UnboundLocalError"
    ELSE IF l.precipitation.type # "str" THEN "AttributeError"     \* precipitation.count('None')
    ELSE IF l.feels_like_value.type = "unbound" THEN "UnboundLocalError"
    ELSE IF l.precipitation_type.type = "unbound" THEN "UnboundLocalError"
    ELSE IF l.pressure.type = "unbound" \/ l.humidity.type = "unbound"
         THEN "UnboundLocalError"
    ELSE "none"

DayForecastStart ==
    /\ CallStart
    /\ \E b \in BOOLEAN, n \in 0..MaxPeriods :
          \E data \in [1..n -> PrecipKinds] :
              args = [fn |-> "dayforecastdata", json_data_bool |-> b, data |-> data]
    /\ ret = NoCall

\* the statements before the loop
CallDayForecast ==
    /\ args.fn = "dayforecastdata"
    /\ ret = NoCall
    /\ LET n == Len(args.data)        \* len(self.dayforecast_data.xpath('//time'))
       IN ret' = [fn |-> args.fn, pc |-> "for",
                  start |-> IF args.json_data_bool THEN 0 ELSE 1,
                  d |-> IF args.json_data_bool THEN 0 ELSE 1,
                  periods |-> IF args.json_data_bool THEN JsonPeriods
                              ELSE IF n < XmlPeriods THEN n ELSE XmlPeriods,
                  locals |-> NoLocals, layout |-> <<>>, raised |-> "none"]
    /\ UNCHANGED <<args, enrichVars, openerVars, cycleVars, downloadVars, inerror, snapVars, iconVars>>

\* one pass of `for d in range(start, periods)`, or its end
DayForecastPeriod ==
    /\ ret.fn = "dayforecastdata"
    /\ ret.pc = "for"
    /\ LET d == ret.d IN
       IF d >= ret.periods
       THEN ret' = [ret EXCEPT !.pc = "return"]
       ELSE IF d >= Len(args.data)       \* self.utc(d, 'dayforecast')
       THEN ret' = [ret EXCEPT !.pc = "raised", !.raised = "IndexError"]
       ELSE LET l == Normalize(args.json_data_bool, d, args.data[d + 1], ret.locals)
                e == Tooltip(l)
            IN  IF e # "none"
                THEN ret' = [ret EXCEPT !.pc = "raised", !.raised = e, !.locals = l]
                ELSE ret' = [ret EXCEPT !.d = d + 1, !.locals = l,
                                        !.layout = Append(@, [period |-> d, fields |-> l])]
    /\ UNCHANGED <<args, enrichVars, openerVars, cycleVars, downloadVars, inerror, snapVars, iconVars>>

DayForecastNext == CallDayForecast \/ DayForecastPeriod

DayForecastSpec == DayForecastStart /\ [][DayForecastNext]_vars

\* ---- one IconDownload with its icon list and the layout it fills ----

\* iconfetch() is called with an icon list and a tooltip list of the same
\* length, one entry per forecast period
IconListStart ==
    /\ CallStart
    /\ \E n \in 1..MaxPeriods : args = [fn |-> "IconDownload", icon |-> n]
    /\ ret = NoCall

\* iconwidget(icon): the label takes the first remaining tooltip and is
\* added to the layout; IndexError is logged when no tooltip is left
iconwidget(r, icon) ==
    IF r.forecast_weather_list = <<>> THEN r
    ELSE [r EXCEPT !.forecast_icons_layout =
                       Append(@, [icon |-> icon,
                                  tooltip |-> Head(r.forecast_weather_list)]),
                   !.forecast_weather_list = Tail(@)]

\* IconDownload.__init__ and start(): periods is 6 or the length of the list
IconDownloadInit ==
    /\ args.fn = "IconDownload"
    /\ ret = NoCall
    /\ ret' = [fn |-> args.fn, pc |-> "run", i |-> 0, tentatives |-> 0,
               periods |-> IF args.icon < 6 THEN args.icon ELSE 6,
               forecast_weather_list |-> [k \in 1..args.icon |-> k - 1],
               forecast_icons_layout |-> <<>>]
    /\ UNCHANGED <<args, enrichVars, openerVars, cycleVars, downloadVars, inerror, snapVars, iconVars>>

\* one pass of `for i in range(self.periods)` with the handling of its wimage
IconDownloadRun ==
    /\ ret.fn = "IconDownload"
    /\ ret.pc = "run"
    /\ \E o \in IconOutcomes :
         ret' = CASE o = "png" ->
                       LET r == iconwidget(ret, ret.i)
                       IN  IF ret.i + 1 = ret.periods
                           THEN [r EXCEPT !.pc = "return"]
                           ELSE [r EXCEPT !.i = @ + 1]
                  [] o = "timeout" ->
                       IF ret.tentatives >= MaxIconTentatives
                       THEN [ret EXCEPT !.pc = "return"]
                       ELSE [ret EXCEPT !.tentatives = @ + 1, !.i = 0]  \* self.run()
                  [] OTHER -> [ret EXCEPT !.pc = "return"]
    /\ UNCHANGED <<args, enrichVars, openerVars, cycleVars, downloadVars, inerror, snapVars, iconVars>>

IconOrderNext == IconDownloadInit \/ IconDownloadRun

\* One icon worker followed through its list, with its layout.
IconOrderSpec == IconListStart /\ [][IconOrderNext]_vars

\* ------------------------------------------------- the UV and ozone workers
\* Outcomes of urlopen(url, timeout=5).read() and of reading the value in
\* the body: the value, or the exception raised inside the try.
EnrichOutcomes == {"value", "timeout", "HTTPError", "URLError",
                   "unparsable", "nokey"}

\* (variant: the except clause names the network errors only)
EnrichEmitsNetworkOnly(o) ==
    IF o = "value" THEN <<"value">>
    ELSE IF o \in {"timeout", "HTTPError", "URLError"} THEN <<"-">>
    ELSE <<>>

\* try: ... uv_ind = dicUV['value'] except: uv_ind = '-', then the one
\* emit after the try statement: what run() emits for an outcome
EnrichEmits(o) == IF o = "value" THEN <<"value">> ELSE <<"-">>

EnrichIsRunning(kd, k) == k # 0 /\ enrichThreads[kd][k].pc = "run"

\* overviewcity(): uv_fetch() binds and starts a new Uv; ozone_fetch()
\* terminates the Ozone that is still running, then binds and starts a new one
EnrichFetch ==
    /\ ~aborted
    /\ \A kd \in EnrichKinds : enrichThread[kd] < MaxEnrichThreads
    /\ enrichThread' = [kd \in EnrichKinds |-> enrichThread[kd] + 1]
    /\ enrichThreads' =
          [kd \in EnrichKinds |->
              [k \in EnrichThreads |->
                  IF k = enrichThread[kd] + 1 THEN [NewEnrich EXCEPT !.pc = "run"]
                  ELSE IF kd = "ozone" /\ k = enrichThread[kd] /\ EnrichIsRunning(kd, k)
                       THEN [enrichThreads[kd][k] EXCEPT !.pc = "terminated"]
                  ELSE enrichThreads[kd][k]]]
    /\ UNCHANGED <<enrichSignals, labels>>
    /\ UNCHANGED <<callVars, openerVars, cycleVars, downloadVars, inerror, snapVars, iconVars>>

\* Uv.run / Ozone.run: the request, and the emit that follows the try
EnrichRun(kd, k) ==
    /\ ~aborted
    /\ enrichThreads[kd][k].pc = "run"
    /\ \E o \in EnrichOutcomes :
          /\ enrichThreads' = [enrichThreads EXCEPT
                                  ![kd][k] = [pc |-> "finished", emitted |-> EnrichEmits(o)]]
          /\ enrichSignals' = enrichSignals \o
                                  [i \in 1..Len(EnrichEmits(o)) |->
                                      [kind |-> kd, arg |-> EnrichEmits(o)[i]]]
    /\ UNCHANGED <<enrichThread, labels>>
    /\ UNCHANGED <<callVars, openerVars, cycleVars, downloadVars, inerror, snapVars, iconVars>>

\* the event loop hands the oldest emission to uv_index / ozone_index,
\* which set the text of their label and show or hide it
EnrichDeliver ==
    /\ ~aborted
    /\ enrichSignals # <<>>
    /\ labels' = [labels EXCEPT ![Head(enrichSignals).kind] = Head(enrichSignals).arg]
    /\ enrichSignals' = Tail(enrichSignals)
    /\ UNCHANGED <<enrichThreads, enrichThread>>
    /\ UNCHANGED <<callVars, openerVars, cycleVars, downloadVars, inerror, snapVars, iconVars>>

\* A Uv that is running when self.uv_thread is rebound has no reference
\* left: the QThread may be destroyed while the thread is still running,
\* and Qt then aborts the process.
UvDestroyedWhileRunning(k) ==
    /\ ~aborted
    /\ k # enrichThread["uv"]
    /\ EnrichIsRunning("uv", k)
    /\ aborted' = TRUE
    /\ UNCHANGED <<iconThreads, iconThread, delivered>>
    /\ UNCHANGED <<otherVars, downloadVars, inerror, snapVars>>

\* the cycle whose done(0) led to overviewcity()
FirstSnapshot == responses = 0 /\ \E p, t \in Values : Snapshot(p, t)

EnrichNext ==
    \/ FirstSnapshot
    \/ EnrichFetch
    \/ \E kd \in EnrichKinds, k \in EnrichThreads : EnrichRun(kd, k)
    \/ EnrichDeliver
    \/ \E k \in EnrichThreads : UvDestroyedWhileRunning(k)

\* The enrichment workers of the overview, after a cycle has stored its
\* snapshot.
EnrichSpec == SnapshotStart /\ [][EnrichNext]_vars

\* ------------------------------------------------- the proxy configuration
\* the settings dialog stores another proxy configuration
ChangeProxySettings ==
    /\ \E c \in Configs \ {proxySettings} : proxySettings' = c
    /\ UNCHANGED <<opener, netWorkers>>
    /\ UNCHANGED <<callVars, enrichVars, cycleVars, downloadVars, inerror, snapVars, iconVars>>

\* the first statements of run(): the Proxy* settings are read, an opener
\* is built from them and urllib.request.install_opener(opener) makes it
\* the opener of the process
InstallOpener(w) ==
    /\ netWorkers[w].pc = "new"
    /\ netWorkers' = [netWorkers EXCEPT ![w].pc = "run", ![w].conf = proxySettings]
    /\ opener' = proxySettings
    /\ UNCHANGED proxySettings
    /\ UNCHANGED <<callVars, enrichVars, cycleVars, downloadVars, inerror, snapVars, iconVars>>

\* urllib.request.urlopen(url, timeout=...): the call goes through the
\* opener of the process at the time of the call
Urlopen(w) ==
    /\ netWorkers[w].pc = "run"
    /\ netWorkers' = [netWorkers EXCEPT ![w].calls = @ \cup {opener}]
    /\ UNCHANGED <<proxySettings, opener>>
    /\ UNCHANGED <<callVars, enrichVars, cycleVars, downloadVars, inerror, snapVars, iconVars>>

\* run() returns
WorkerReturn(w) ==
    /\ netWorkers[w].pc = "run"
    /\ netWorkers' = [netWorkers EXCEPT ![w].pc = "finished"]
    /\ UNCHANGED <<proxySettings, opener>>
    /\ UNCHANGED <<callVars, enrichVars, cycleVars, downloadVars, inerror, snapVars, iconVars>>

OpenerNext ==
    \/ ChangeProxySettings
    \/ \E w \in WorkerClasses : InstallOpener(w)
    \/ \E w \in WorkerClasses : Urlopen(w)
    \/ \E w \in WorkerClasses : WorkerReturn(w)

\* One run() of each worker class, started in any order, with changes of
\* the proxy settings in between.
OpenerStart == DownloadIdle /\ SnapshotInit /\ IconInit /\ CallInit /\ EnrichInit /\ OpenerInit /\ CycleInit
OpenerSpec == OpenerStart /\ [][OpenerNext]_vars

\* ------------------------------------ whole cycles as the consumer sees them
\* The run() of a Download is taken as a whole: what it emits, in order.
\* The emissions of a finished Download may still wait in the event queue
\* of the consumer when the next refresh is handled.

\* the state of SystemTrayIcon.__init__ before its last statement,
\* self.refresh(): the timer is created and connected, not started
CycleStart ==
    /\ threads = [t \in Threads |-> NewDownload]
    /\ downloadThread = 0
    /\ signals = <<>>
    /\ inerror = FALSE
    /\ timerActive = FALSE
    /\ shots = [try_again |-> 0, refresh |-> 0]
    /\ tentatives = 0
    /\ forcast6daysBool = FALSE
    /\ gui = NoGui
    /\ lastUpdate = ""
    /\ SnapshotInit
    /\ IconInit
    /\ OtherInit

\* the last statement of __init__
FirstRefresh ==
    /\ lastUpdate = ""
    /\ Refresh
    /\ UNCHANGED <<shots, tentatives>>

\* the tray menu entry: manual_refresh(), once the object is constructed
MenuRefresh ==
    /\ lastUpdate # ""
    /\ ManualRefresh

\* what an invocation of run() emits once the coordinates are read
Coords(t) == <<Sig(t, "weather_icon_signal", "icon"), Sig(t, "uv_signal", "coord")>>

\* what the invocation that reaches the end of the try block emits
Success(t, tree, forcast6days, dayforecast) ==
    Coords(t)
    \o <<Sig(t, "xmlpage", tree), Sig(t, "wimage", "png")>>
    \o (IF forcast6days THEN <<Sig(t, "forecast6_rawpage", "tree")>> ELSE <<>>)
    \o <<Sig(t, "day_forecast_rawpage", dayforecast), Sig(t, "done", "0")>>

\* the ways a run() that does not succeed ends: done(1) from the timeout
\* handler or the XMLSyntaxError handler, error and done(1) from the
\* HTTPError / URLError handler, nothing when the exception leaves run()
Failures == {"done1", "error", "uncaught"}

Failure(t, f) ==
    IF f = "done1" THEN <<Sig(t, "done", "1")>>
    ELSE IF f = "error" THEN <<Sig(t, "error", "HTTPError"), Sig(t, "done", "1")>>
    ELSE <<>>

\* Download.run() with its retries: an invocation that fails after the
\* coordinates were read has emitted them (late = TRUE) before the retry,
\* or before the handler that ends the cycle
CycleRun(t) ==
    /\ threads[t].pc = "forecast6"
    /\ threads[t].emit = <<>>
    /\ \E late \in BOOLEAN :
         \E emit \in {Success(t, tree, f6, df) : tree \in WeatherTreeKinds,
                      f6 \in BOOLEAN, df \in {"tree", "dict"}}
                     \cup {Failure(t, f) : f \in Failures} :
             threads' = [threads EXCEPT ![t].pc = "return",
                                        ![t].emit = (IF late THEN Coords(t) ELSE <<>>) \o emit]
    /\ UNCHANGED signals
    /\ GuiUnchanged

\* signal.emit(): the call is queued for the consumer's thread
CycleEmit(t) ==
    /\ threads[t].emit # <<>>
    /\ Len(signals) < MaxPending
    /\ signals' = Append(signals, Head(threads[t].emit))
    /\ threads' = [threads EXCEPT ![t].emit = Tail(@)]
    /\ GuiUnchanged

\* overviewcity(), called by done(0): the dialog is filled from
\* weatherDataDico (KeyError when a key was never set); from line 586 on
\* the forecast of the mode is shown and the workers are started, the UV and
\* ozone workers after dayforecastdata(), which raises for the JSON format
CycleOverview(s) ==
    IF weatherDataDico.Temp = NoTag \/ weatherDataDico.Wind = NoTag
    THEN UNCHANGED overview
    ELSE overview' = [cycle |-> s.from,
                      Temp |-> weatherDataDico.Temp.serial,
                      Wind |-> weatherDataDico.Wind.serial,
                      mode |-> IF forcast6daysBool THEN "6" ELSE "4",
                      forecast6_data |-> stored.forecast6_data,
                      uv_started |-> ~gui.json_data_bool,
                      uv_coord |-> stored.uv_coord]

\* The event loop delivers the oldest queued signal to its slot.
CycleDeliver ==
    /\ signals # <<>>
    /\ signals' = Tail(signals)
    /\ LET s == Head(signals) IN
       CASE s.sig = "done" ->
              /\ Done(s)
              /\ IF s.arg = "0" /\ gui.dayforecast_data # "none"
                 THEN CycleOverview(s)
                 ELSE UNCHANGED overview
              /\ UNCHANGED <<timerActive, forcast6daysBool, gui, stored, snapVars>>
         [] s.sig = "error" ->                         \* error(error)
              /\ timerActive' = TRUE
              /\ inerror' = TRUE
              /\ UNCHANGED <<shots, tentatives, forcast6daysBool, gui, cycleVars, snapVars>>
         [] s.sig = "weather_icon_signal" ->           \* weather_icon_name_set
              /\ stored' = [stored EXCEPT !.weather_icon_name = s.from]
              /\ UNCHANGED <<inerror, timerActive, shots, tentatives, forcast6daysBool,
                             gui, overview, snapVars>>
         [] s.sig = "uv_signal" ->                     \* uv
              /\ stored' = [stored EXCEPT !.uv_coord = s.from]
              /\ UNCHANGED <<inerror, timerActive, shots, tentatives, forcast6daysBool,
                             gui, overview, snapVars>>
         [] s.sig = "xmlpage" ->                       \* weatherdata
              /\ Weatherdata(Response(s.arg, id_, s.from, 1, 1))
              /\ UNCHANGED <<id_, fetching, doneQueued, responses>>
              /\ UNCHANGED <<inerror, timerActive, shots, tentatives, forcast6daysBool,
                             gui, cycleVars>>
         [] s.sig = "wimage" ->                        \* makeicon
              /\ stored' = [stored EXCEPT !.wIcon = s.from]
              /\ UNCHANGED <<inerror, timerActive, shots, tentatives, forcast6daysBool,
                             gui, overview, snapVars>>
         [] s.sig = "forecast6_rawpage" ->             \* forecast6
              /\ forcast6daysBool' = TRUE
              /\ stored' = [stored EXCEPT !.forecast6_data = s.from]
              /\ UNCHANGED <<inerror, timerActive, shots, tentatives, gui, overview, snapVars>>
         [] s.sig = "day_forecast_rawpage" ->          \* dayforecast
              /\ gui' = [dayforecast_data |-> s.arg, json_data_bool |-> (s.arg = "dict")]
              /\ stored' = [stored EXCEPT !.dayforecast_data = s.from]
              /\ UNCHANGED <<inerror, timerActive, shots, tentatives, forcast6daysBool,
                             overview, snapVars>>
    /\ UNCHANGED <<threads, downloadThread, lastUpdate, iconVars, callVars, enrichVars,
                   openerVars>>

CycleNext ==
    \/ FirstRefresh
    \/ TimerTimeout
    \/ MenuRefresh
    \/ ShotRefresh
    \/ ShotTryAgain
    \/ \E t \in Threads : CycleRun(t)
    \/ \E t \in Threads : CycleEmit(t)
    \/ \E t \in Threads : Return(t)
    \/ CycleDeliver

\* The cycles of the consumer from its construction on.
CycleSpec == CycleStart /\ [][CycleNext]_vars

\* A single-shot timer that is pending fires: the event loop of the
\* consumer keeps running.
CycleLiveSpec ==
    CycleSpec /\ WF_vars(ShotTryAgain) /\ WF_vars(ShotRefresh)

\* ------------------------------------------------------------------ claims
\* The innermost invocation of run() of thread t is over and has emitted
\* everything it emits; its frame (and the observations) are still there.
Ended(t) ==
    /\ threads[t].pc = "return"
    /\ threads[t].emit = <<>>
    /\ threads[t].depth = threads[t].runs

IsDone(x) == x \in {"done0", "done1"}
DoneEmissions(t) == SelectSeq(threads[t].out, IsDone)
HttpErrors == {"ConnectionResetError", "HTTPError", "URLError"}

\* Every invocation of thread t so far ended in a retry handler.
AllTransient(t) == threads[t].transient = threads[t].runs

C2_AtMostOneDone ==
    \A t \in Threads : Len(DoneEmissions(t)) <= 1

\* a retried thread emitted its done and is unwinding the nested frames
C2_Witness ==
    \E t \in Threads :
        /\ threads[t].pc = "return"
        /\ threads[t].tentatives > 0
        /\ threads[t].depth < threads[t].tentatives + 1
        /\ Len(DoneEmissions(t)) = 1

\* C3: a run that is over has emitted a done event.
C3_AlwaysDone ==
    \A t \in Threads : Ended(t) => Len(DoneEmissions(t)) >= 1

\* C4: the tree carried by an xmlpage (currentWeather) emission passed the
\* check of its mandatory fields (lat, lon, icon).
C4_SnapshotComplete ==
    /\ \A i \in DOMAIN signals :
         signals[i].sig = "xmlpage" => signals[i].arg = "complete"
    /\ \A t \in Threads : \A i \in DOMAIN threads[t].emit :
         threads[t].emit[i].sig = "xmlpage" => threads[t].emit[i].arg = "complete"

Running == {t \in Threads : IsRunning(t)}

\* C5: at most one Download thread is running; while one is running no
\* step starts another one (a refresh is dropped, not queued).
C5_OneWorker ==
    [][ /\ Cardinality({t \in Threads : threads'[t].pc \notin {"new", "finished"}}) <= 1
        /\ Running # {} =>
             \A t \in Threads : threads[t].pc = "new" => threads'[t].pc = "new"
      ]_vars

\* a refresh was dropped, the running thread has finished, no thread was
\* started for the dropped request
C5_Witness ==
    /\ lastUpdate = "remaining thread..."
    /\ downloadThread = 1
    /\ threads[1].pc = "finished"
    /\ \A t \in Threads : t > 1 => threads[t].pc = "new"

\* C6: when the XML current-weather body failed the check of its fields
\* and the JSON body lacks them too, the run ends with done(1).
C6_BothFormatsFail ==
    \A t \in Threads :
        (/\ Ended(t)
         /\ threads[t].tree = "incomplete"
         /\ threads[t].page.enc = "str"
         /\ threads[t].page.kind \in {"nokeys", "envelope"})
        => DoneEmissions(t) = <<"done1">>

\* C7 (as amended): in an invocation of run() that read a primary-format
\* day-forecast envelope and is past the envelope checks, exactly one
\* alternate-format day-forecast request was issued, unless the
\* current-weather body is an envelope itself (then none); no request is
\* issued for a body that is no envelope.
C7_OneAlternatePerInvocation ==
    \A t \in Threads :
        LET w == threads[t] IN
        /\ (w.dfxml = "envelope" /\ w.pc # "json_dayforecast") =>
               w.altdf = (IF Html404(w.page) THEN 0 ELSE 1)
        /\ (w.dfxml # "envelope" \/ w.pc = "json_dayforecast") => w.altdf = 0

\* C7 (original): at most one alternate-format day-forecast request in
\* the whole cycle (all invocations of the thread).
C7_OneAlternatePerCycle ==
    \A t \in Threads : threads[t].altdfcycle <= 1

C7_Witness ==
    \E t \in Threads :
        /\ threads[t].dfxml = "envelope"
        /\ threads[t].altdf = 1
        /\ threads[t].pc = "icon"

SyntaxErrors == {"XMLSyntaxError", "JSONDecodeError"}

\* C8: a syntax error in a body of the first attempt ends the attempt
\* without a retry or further network call, and with done(1).
C8_FatalParseNoRetry ==
    \A t \in Threads :
        threads[t].raised \in SyntaxErrors =>
            /\ threads[t].pc = "return"
            /\ (Ended(t) /\ threads[t].runs = 1) =>
                   (threads[t].tentatives = 0 /\ DoneEmissions(t) = <<"done1">>)

\* C9 (as amended): done(1) after an HTTP, URL or connection-reset error
\* is preceded by one error emission; done(1) after timeouts or after an
\* XML syntax error is emitted alone.
C9_ErrorOnlyForHttp ==
    \A t \in Threads :
        LET w == threads[t] IN
        (w.depth = w.runs /\ \E i \in DOMAIN w.out : w.out[i] = "done1") =>
            IF w.raised \in HttpErrors
            THEN w.out = <<"error", "done1">>
            ELSE w.raised \in {"timeout", "XMLSyntaxError"} /\ w.out = <<"done1">>

\* C9 (original): every done(1) emission is preceded by an error emission.
C9_ErrorBeforeDone ==
    \A t \in Threads : \A i \in DOMAIN threads[t].out :
        threads[t].out[i] = "done1" =>
            \E j \in 1..(i - 1) : threads[t].out[j] = "error"

C9_Witness ==
    \E t \in Threads :
        /\ threads[t].raised \in HttpErrors
        /\ threads[t].out = <<"error", "done1">>

\* C10: an invocation that read an envelope as current-weather body, or
\* as both day-forecast bodies, ends the run only when the retries are
\* exhausted, with done(1).
C10_EnvelopeIsTransient ==
    \A t \in Threads :
        LET w == threads[t] IN
        (/\ Ended(t)
         /\ \/ Html404(w.page)
            \/ (w.dfxml = "envelope" /\ w.pagedayforecast = Decode(Bytes("envelope"))))
        => (Exhausted(w.tentatives) /\ DoneEmissions(t) = <<"done1">>)

\* C11: whatever way the 6-day-forecast call ends, the invocation goes on
\* to the current-weather call; no outcome of the call ends the run.
C11_Forecast6NeverAborts ==
    [][ \A t \in Threads :
          (threads[t].pc = "forecast6" /\ threads'[t].pc # "forecast6")
              => threads'[t].pc = "open_weather"
      ]_vars

\* C12 (as amended): a primary-format day-forecast body that is no envelope
\* and cannot be parsed never leads to an alternate-format day-forecast
\* request nor to the icon fetch; the XMLSyntaxError it raises at line 2433
\* ends the run with done(1) alone.
C12_MalformedIsFatal ==
    \A t \in Threads :
        LET w == threads[t] IN
        w.dfxml = "syntaxerror" =>
            /\ w.altdf = 0
            /\ w.pc \notin {"json_dayforecast", "icon"}
            /\ (Ended(t) /\ w.runs = 1 /\ w.page.kind = "valid") =>
                   (w.raised = "XMLSyntaxError" /\ w.out = <<"done1">>)

\* C12 (original): a run that ended on a malformed primary-format
\* day-forecast body has requested the alternate format before.
C12_AlternateAfterMalformed ==
    \A t \in Threads :
        (Ended(t) /\ threads[t].dfxml = "syntaxerror" /\ threads[t].raised = "XMLSyntaxError")
            => threads[t].altdf >= 1

\* the day forecast was declared unavailable after a valid current-weather
\* body and a malformed day-forecast body
C12_Witness ==
    \E t \in Threads :
        /\ Ended(t)
        /\ threads[t].dfxml = "syntaxerror"
        /\ threads[t].page = Bytes("valid")
        /\ threads[t].raised = "XMLSyntaxError"
        /\ threads[t].out = <<"done1">>

C20_ManualRefreshResets ==
    [][ ManualRefresh =>
            \A t \in Threads :
                IsRunning(t) =>
                    /\ threads'[t].tentatives = 0
                    /\ threads'[t].pc = threads[t].pc
      ]_vars

Sign(d) == IF d > 0 THEN "up" ELSE IF d < 0 THEN "down" ELSE "flat"

\* C13: the temperature trend reported with the first snapshot of a city
\* is flat (""); with a later one it is up or down as the temperature rose
\* or fell against the previous snapshot of the city, and on a tie it is
\* the trend reported with that previous snapshot.
C13_TemperatureTrend ==
    \A c \in Cities :
        LET h == hist[c] IN
        /\ Len(h) = 1 => h[1].trend = ""
        /\ Len(h) = 2 =>
               h[2].trend = IF h[2].t > h[1].t THEN "up"
                            ELSE IF h[2].t < h[1].t THEN "down"
                            ELSE h[1].trend

\* C14: the pressure trend reported with the first snapshot of a city is
\* flat; with a later one it is the sign of the difference to the pressure
\* of the previous snapshot of the city, whatever was reported before; and
\* self.hPaTrend shows the trend of the last snapshot.
C14_PressureTrend ==
    /\ \A c \in Cities :
          LET h == hist[c] IN
          /\ Len(h) = 1 => h[1].hpa = "flat"
          /\ Len(h) = 2 => h[2].hpa = Sign(h[2].p - h[1].p)
    /\ lastloc # 0 => HPaArrow(hPaTrend) = hist[lastloc][Len(hist[lastloc])].hpa

\* a tie after a rise: the trend reported is flat, not up
C14_Witness ==
    \E c \in Cities :
        /\ Len(hist[c]) = 2
        /\ hist[c][1].hpa = "up"
        /\ hist[c][2].p = hist[c][1].p
        /\ hist[c][2].hpa = "flat"
        /\ lastloc = c /\ hPaTrend = 0

\* C15: with the first snapshot of a city both trends reported are flat.
C15_FirstSnapshotFlat ==
    \A c \in Cities :
        Len(hist[c]) = 1 => (hist[c][1].trend = "" /\ hist[c][1].hpa = "flat")

\* C16: after the first snapshot of a city its flag (index 4 of the entry)
\* is still ''; after a later one it is True when the temperature differs
\* from that of the previous snapshot of the city, False when it is equal.
C16_NotifiedFlag ==
    \A c \in Cities :
        LET h == hist[c] IN
        /\ Len(h) = 0 => c \notin DOMAIN trendCities_dic
        /\ Len(h) = 1 => trendCities_dic[c][5] = ""
        /\ Len(h) = 2 =>
               trendCities_dic[c][5] = IF h[2].t # h[1].t THEN "True" ELSE "False"

\* the temperature of a city fell: the flag is True
C16_Witness ==
    \E c \in Cities :
        /\ Len(hist[c]) = 2
        /\ hist[c][2].t < hist[c][1].t
        /\ trendCities_dic[c][5] = "True"

\* C17: the values stored in weatherDataDico are all taken from one
\* response, and the city stored with them is the city of that response.
C17_SnapshotAtomic ==
    LET w == weatherDataDico IN
    /\ w.Sunrise = w.Pressure.from
    /\ w.Sunrise = w.Temp
    /\ w.Sunrise = w.Wind
    /\ w.Id = w.Sunrise.loc

\* C19: per icon channel at most one IconDownload is running, and the
\* icons in the layout of the channel were delivered by one worker.
C19_OneIconWorker ==
    \A ch \in Channels :
        /\ Cardinality({k \in IconThreads : IconIsRunning(ch, k)}) <= 1
        /\ Cardinality(delivered[ch]) <= 1

\* C29 (as amended): every retry is a new invocation of run(): while the
\* frames are all there the invocations number one more than the retries
\* counted, at most MaxTentatives retries are counted, and an invocation
\* begins with the 6-day-forecast call, nothing of the earlier one kept.
C29_RetryRestartsRun ==
    \A t \in Threads :
        LET w == threads[t] IN
        /\ w.tentatives <= MaxTentatives
        /\ (w.runs > 0 /\ w.depth = w.runs) => w.runs = w.tentatives + 1
        /\ w.pc = "forecast6" =>
               (~w.forcast6days /\ w.page = NoPage /\ w.pagedayforecast = NoPage)

\* C29 (original): the step that counts a retry repeats the call that
\* failed; the thread stays at that call.
C29_RetrySameCall ==
    [][ \A t \in Threads :
          threads'[t].tentatives = threads[t].tentatives + 1
              => threads'[t].pc = threads[t].pc
      ]_vars

\* after one retry the 6-day-forecast call has been made again and the
\* worker is at the current-weather call of its second invocation
C29_Witness ==
    \E t \in Threads :
        /\ threads[t].tentatives = 1
        /\ threads[t].runs = 2
        /\ threads[t].pc = "open_weather"
        /\ threads[t].forcast6days

\* C30: the city stored with the snapshot is the city the response was
\* fetched for, and so is the key of the trend entry updated with it.
C30_RecordedUnderFetchedCity ==
    /\ weatherDataDico.Id = weatherDataDico.Temp.loc
    /\ lastloc = weatherDataDico.Wind.loc

\* the 16 compass codes, clockwise from north
CompassCodes == <<"N", "NNE", "NE", "ENE", "E", "ESE", "SE", "SSE",
                  "S", "SSW", "SW", "WSW", "W", "WNW", "NW", "NNW">>
\* the sector of 22.5 degrees centred on a compass point that holds deg
CentredCode(deg) == CompassCodes[(((2 * deg + 225) \div 450) % 16) + 1]

\* C25: compass(0) = N, compass(45) = NE, compass(180) = S, compass(350) = N,
\* compass(337.5) = N, and a bearing k * 22.5 gets the code of the compass
\* point at that bearing.
C25_CompassValues ==
    ret.fn = "winddir_json_code" =>
        LET d == args.deg IN
        /\ d = 0 => ret.value = "N"
        /\ d = 450 => ret.value = "NE"
        /\ d = 1800 => ret.value = "S"
        /\ d = 3500 => ret.value = "N"
        /\ d = 3375 => ret.value = "N"
        /\ \A k \in 1..14 : d = k * 225 => ret.value = CompassCodes[k + 1]

\* C26: every bearing gets one of the 16 codes, the code of the sector of
\* 22.5 degrees centred on a compass point that holds it, and each of the
\* 16 codes is returned for some bearing.
C26_CompassSectors ==
    ret.fn = "winddir_json_code" =>
        /\ \E i \in 1..16 : ret.value = CompassCodes[i]
        /\ \A i \in 1..16 : \E d \in Bearings : winddir_json_code(d) = CompassCodes[i]
        /\ ret.value = CentredCode(args.deg)

\* C27: over the speeds a table gives a number for, the number does not
\* decrease when the speed grows by a tenth (so it is non-decreasing), and
\* 0.2 m/s -> 0, 1.5 m/s -> 1, 36.9 m/s -> 12, 82 mph -> 12.
C27_BeaufortMonotonic ==
    ret.fn = "convertToBeaufort" =>
        LET v == args.speed
            u == args.unit_system
            below == convertToBeaufort(v - 1, u)
        IN  /\ (v > 0 /\ ret.value # None /\ below # None)
                   => below[1] <= ret.value[1]
            /\ (u = "m/s" /\ v = 2) => ret.value = <<0>>
            /\ (u = "m/s" /\ v = 15) => ret.value = <<1>>
            /\ (u = "m/s" /\ v = 369) => ret.value = <<12>>
            /\ (u = "mph" /\ v = 820) => ret.value = <<12>>

\* the conversion was applied to the last speed of the m/s table
C27_Witness ==
    /\ ret.fn = "convertToBeaufort"
    /\ args.unit_system = "m/s"
    /\ args.speed = 369
    /\ ret.value = <<12>>

\* C28: for every speed and both units the conversion returns an integer
\* in 0..12.
C28_BeaufortTotal ==
    ret.fn = "convertToBeaufort" =>
        /\ ret.value # None
        /\ ret.value[1] \in 0..12

\* C23: for every number n of periods in the response, in both formats,
\* the loop ends without an exception and has added at most n periods,
\* in the order of the response.
C23_ForecastLength ==
    ret.fn = "dayforecastdata" =>
        /\ ret.raised = "none"
        /\ Len(ret.layout) <= Len(args.data)
        /\ \A i, j \in 1..Len(ret.layout) :
               i < j => ret.layout[i].period < ret.layout[j].period

\* C24: once a period has been normalized, from either format, every field
\* is defined and taken from that period.
C24_SameFields ==
    (ret.fn = "dayforecastdata" /\ ret.locals # NoLocals) =>
        LET d == IF ret.pc = "raised" THEN ret.d ELSE ret.d - 1 IN
        \A f \in Fields :
            /\ ret.locals[f].type # "unbound"
            /\ ret.locals[f].from = d

\* C21: an enrichment worker whose run() is over has emitted exactly one
\* result, the value or '-'; and a step of an enrichment worker or of its
\* slot changes neither the stored snapshot, nor the trends, nor a retry
\* counter, and queues no error or done emission.
C21_OneResultNoEffect ==
    /\ [](\A kd \in EnrichKinds, k \in EnrichThreads :
            enrichThreads[kd][k].pc = "finished" =>
                enrichThreads[kd][k].emitted \in {<<"value">>, <<"-">>})
    /\ [][ enrichVars' # enrichVars =>
             UNCHANGED <<weatherDataDico, trendCities_dic, hPaTrend, temp_trend,
                         hist, tentatives, threads, signals, inerror>>
       ]_vars

\* a snapshot is stored and both workers have delivered '-' and a value
C21_Witness ==
    /\ responses = 1
    /\ labels["uv"] = "-"
    /\ labels["ozone"] = "value"
    /\ \A kd \in EnrichKinds : enrichThreads[kd][1].pc = "finished"

\* C22: every network call of a worker goes through the configuration that
\* worker read at the start of its run.
C22_OwnConfiguration ==
    \A w \in WorkerClasses : netWorkers[w].calls \subseteq {netWorkers[w].conf}

\* the signals of Download that carry data of the response
DataSignals == {"weather_icon_signal", "uv_signal", "xmlpage", "wimage",
                "forecast6_rawpage", "day_forecast_rawpage"}

\* C31: what an attempt has still to emit never holds a data event
\* together with done(1): an attempt that ends the cycle with done(1)
\* emits no data event.
C31_FatalNoData ==
    \A t \in Threads :
        \A i, j \in DOMAIN threads[t].emit :
            ~ /\ threads[t].emit[i].sig \in DataSignals
              /\ threads[t].emit[j].sig = "done"
              /\ threads[t].emit[j].arg = "1"

\* C32: the k-th icon of the layout is the icon of the k-th forecast period,
\* so every icon of the list is delivered once and in list order.
C32_IconsInListOrder ==
    ret.fn = "IconDownload" =>
        \A k \in DOMAIN ret.forecast_icons_layout :
            /\ ret.forecast_icons_layout[k].icon = k - 1
            /\ ret.forecast_icons_layout[k].tooltip = k - 1

\* C39: normalizing a forecast period that has neither a rain nor a snow
\* value raises no error, in both formats and at every position.
C39_NoPrecipitationNoError ==
    (ret.fn = "dayforecastdata" /\ ret.pc = "raised" /\ ret.d < Len(args.data))
        => args.data[ret.d + 1] # "none"

\* the event loop hands a done(0) to its slot in this step
HandlesDone0 ==
    /\ signals # <<>>
    /\ Head(signals).sig = "done"
    /\ Head(signals).arg = "0"
    /\ signals' = Tail(signals)

\* C35: when done(0) of a cycle is handled, the snapshot, the coordinates
\* and the day forecast of that same cycle are stored.
C35_StoredBeforeDone ==
    [][ HandlesDone0 =>
          LET c == Head(signals).from
          IN  /\ weatherDataDico.Temp.serial = c
              /\ weatherDataDico.Wind.serial = c
              /\ stored.uv_coord = c
              /\ stored.dayforecast_data = c ]_vars

\* C33: the UV and ozone workers are started by the overview of a cycle
\* whose snapshot is applied, with the coordinates of that cycle.
C33_EnrichmentOfSameCycle ==
    overview.uv_started =>
        /\ overview.Temp = overview.cycle
        /\ overview.Wind = overview.cycle
        /\ overview.uv_coord = overview.cycle

\* C36: the overview of a cycle is in 6-day mode exactly when the 6-day
\* forecast stored is the one of that cycle.
C36_ModeOfSameCycle ==
    overview.cycle # 0 =>
        (overview.mode = "6" <=> overview.forecast6_data = overview.cycle)

\* the event loop hands a done(1) to its slot in this step
HandlesDone1 ==
    /\ signals # <<>>
    /\ Head(signals).sig = "done"
    /\ Head(signals).arg = "1"
    /\ signals' = Tail(signals)

\* C34: every done(1) that is handled schedules try_again; try_again
\* schedules a refresh whatever the value of the attempt counter; and once
\* the Download of the failed cycle is over, a pending backoff leads to the
\* start of the next cycle.
C34_BackoffRestarts ==
    /\ [][ HandlesDone1 => /\ shots'.try_again = shots.try_again + 1
                           /\ inerror' ]_vars
    /\ [][ shots'.try_again < shots.try_again
             => shots'.refresh = shots.refresh + 1 ]_vars
    /\ \A c \in 1..(MaxThreads - 1) :
          (/\ downloadThread = c
           /\ ~IsRunning(c)
           /\ shots.try_again + shots.refresh > 0)
              ~> (downloadThread > c)

\* a second cycle was started after the first one ended with done(1) and
\* try_again() ran
C34_Witness ==
    /\ downloadThread = 2
    /\ threads[2].pc = "forecast6"
    /\ tentatives = 1
    /\ stored = NoStored
    /\ shots = [try_again |-> 0, refresh |-> 0]

\* C38: once refresh() has run, the periodic timer is running, whether
\* update() started a Download or dropped the request.
C38_TimerRunsAfterRefresh == lastUpdate # "" => timerActive

\* a refresh was dropped because the Download is running, and the timer runs
C38_Witness == lastUpdate = "remaining thread..." /\ timerActive

\* C37: a manual refresh leaves no backoff callback pending.
C37_ManualRefreshCancels ==
    [][ ManualRefresh => shots' = [try_again |-> 0, refresh |-> 0] ]_vars

Next ==
    \/ \E t \in Threads : ThreadStep(t)
    \/ TimerTimeout
    \/ ManualRefresh
    \/ ShotRefresh
    \/ ShotTryAgain
    \/ Deliver

Spec == Init /\ [][Next]_vars
=============================================================================
